---- MODULE Spec2Model ----
(***************************************************************************)
(* Model of the caption labelling pipeline of src/src/label_images.py:     *)
(* compile_tag_patterns, tag_chunk, caption_labeller_parallel and the      *)
(* module-level script that filters the labelled rows by take_tags.        *)
(*                                                                         *)
(* Strings are sequences of one-character strings, so that lower-casing    *)
(* and substring search are computed and not assumed.  A nullable value    *)
(* (pandas None / NaN) is a sequence of length 0 (None) or 1 (Some(x)).    *)
(* Weights are integers in hundredths (27.0 is 2700).                      *)
(***************************************************************************)
EXTENDS Integers, Sequences, FiniteSets, TLC

\* ------------------------------------------------------------------ bounds
MaxRows == 3
MaxChunkRows == 3
MaxChunkSize == 2
MaxJobs == 2
MaxCount == 32
MaxSplitRows == 8
MaxSplitChunkSize == 4

\* ------------------------------------------------------- nullable values
None == << >>
Some(x) == << x >>

\* ----------------------------------------------------------------- strings
UpperLetters ==
  << "A","B","C","D","E","F","G","H","I","J","K","L","M",
     "N","O","P","Q","R","S","T","U","V","W","X","Y","Z" >>
LowerLetters ==
  << "a","b","c","d","e","f","g","h","i","j","k","l","m",
     "n","o","p","q","r","s","t","u","v","w","x","y","z" >>

\* str.lower() on one character
LowerChar(c) ==
  IF \E i \in DOMAIN UpperLetters : UpperLetters[i] = c
    THEN LowerLetters[CHOOSE i \in DOMAIN UpperLetters : UpperLetters[i] = c]
    ELSE c

\* str.lower()
Lower(s) == [i \in 1..Len(s) |-> LowerChar(s[i])]

\* literal substring test: what an escaped (re.escape) pattern searches for
Contains(hay, needle) ==
  \E i \in 0..(Len(hay) - Len(needle)) : SubSeq(hay, i + 1, i + Len(needle)) = needle

\* the strings of the excerpt of tag_list and of take_tags
sAFM == << "A","F","M" >>
sSTM == << "S","T","M" >>
sKPFM == << "K","P","F","M" >>
sMFM == << "M","F","M" >>
sPFM == << "P","F","M" >>
sCAFM == << "C","-","A","F","M" >>
sSNOM == << "S","N","O","M" >>
sNSOM == << "N","S","O","M" >>
sSEM == << "S","E","M" >>
sEBSD == << "E","B","S","D" >>
sEDS == << "E","D","S" >>
sFIB == << "F","I","B" >>
sTEM == << "T","E","M" >>
sOptical ==
  << "O","p","t","i","c","a","l"," ","m","i","c","r","o","s","c","o","p","y" >>
sMicrostructure ==
  << "m","i","c","r","o","s","t","r","u","c","t","u","r","e" >>

\* ------------------------------------------------------- tag definitions
\* A definition is a Python value: a str, a list of values, or another type.
Str(s) == [ty |-> "str", v |-> s]
PyInt == [ty |-> "int", v |-> << >>]
List(xs) == [ty |-> "list", v |-> xs]

\* tag_list, lines 71-78, the SPM definitions that share substrings
TagListSrc ==
  << List(<< Str(sAFM) >>),
     List(<< Str(sKPFM) >>),
     List(<< Str(sPFM) >>),
     List(<< Str(sCAFM) >>),
     List(<< Str(sSNOM), Str(sNSOM) >>) >>

\* a definition given as a plain string followed by a longer one
TagListStr == << Str(sAFM), List(<< Str(sCAFM) >>) >>

\* malformed definitions
TagListInt == << List(<< Str(sAFM) >>), PyInt >>
TagListBadSyn == << List(<< Str(sAFM), PyInt >>) >>
TagListEmpty == << List(<< >>) >>

TagLists == { TagListSrc, TagListStr, TagListInt, TagListBadSyn, TagListEmpty }

take_tags ==
  { sTEM, sSEM, sEDS, sFIB, sAFM, sMicrostructure, sEBSD, sOptical, sSTM, sPFM, sMFM }

\* ---------------------------------------------------------------- captions
\* captions of the corpus given to the pipeline
Captions == { None, Some(sKPFM), Some(sCAFM) }

\* captions of the chunk given to a worker
ChunkCaptions ==
  { None,
    Some(<< >>),
    Some(sKPFM),
    Some(sCAFM),
    Some(<< "n","s","o","m" >>),
    Some(<< "X","R","D" >>) }

\* input frames: rows with a passthrough id column and a caption column
RECURSIVE SeqsUpTo(_, _)
SeqsUpTo(S, n) ==
  IF n = 0 THEN { << >> }
  ELSE LET shorter == SeqsUpTo(S, n - 1)
       IN shorter \cup { Append(s, x) : s \in { t \in shorter : Len(t) = n - 1 }, x \in S }

FrameOf(cs) == [i \in 1..Len(cs) |-> [id |-> i, caption |-> cs[i]]]

InputFrames == { FrameOf(cs) : cs \in SeqsUpTo(Captions, MaxRows) }

InputChunks == { FrameOf(cs) : cs \in SeqsUpTo(ChunkCaptions, MaxChunkRows) }

VARIABLES
  tag_list, DF, chunk_size, n_jobs,   \* the arguments of caption_labeller_parallel
  pc, err,                            \* position in the script, exception raised
  patterns,                           \* compile_tag_patterns(tag_list)
  chunks,                             \* np.array_split(DF, ...)
  status,                             \* per chunk: "pending", "running", "done"
  processed,                          \* per chunk: the frame returned by tag_chunk
  completed,                          \* chunk indexes in the order the workers finished
  work, pidx,                         \* inside tag_chunk: the frame, the next pattern
  DF_out, sorted_dict, newdf2,        \* results
  relabel, first_out,                 \* second labelling pass over DF_out
  \* the viewer, src/src/dashboard.py
  session_state,                      \* st.session_state: key -> None or Some(value)
  radio_widget,                       \* the view selector as last rendered: index, value
  default_view, view_mode,            \* of the last script run
  search_query, search_opts,          \* the search box and the two check boxes
  search_results,                     \* the entries listed by the last script run
  sidebar,                            \* the three select boxes of the Browse view
  shown,                              \* the (pii, figure_id) displayed by the Browse view
  rerunning,                          \* st.rerun() was called, the next run is due
  clicked, runs_since_click           \* the last "View Full Details" click and the runs after it

viewerVars ==
  << session_state, radio_widget, default_view, view_mode, search_query, search_opts,
     search_results, sidebar, shown, rerunning, clicked, runs_since_click >>

pipelineVars ==
  << tag_list, DF, chunk_size, n_jobs, pc, err, patterns, chunks, status,
     processed, completed, work, pidx, DF_out, sorted_dict, newdf2, relabel,
     first_out >>

vars == << pipelineVars, viewerVars >>

\* ------------------------------------------------------ the viewer at rest
SessionKeys == { "switch_to_browse", "selected_pii", "selected_figure", "selected_journal" }

EmptySession == [k \in SessionKeys |-> None]

\* no script run yet
ViewerIdle ==
  /\ session_state = EmptySession
  /\ radio_widget = [index |-> -1, value |-> "none"]
  /\ default_view = "none"
  /\ view_mode = "none"
  /\ search_query = << >>
  /\ search_opts = [caption |-> TRUE, descriptions |-> TRUE]
  /\ search_results = << >>
  /\ sidebar = None
  /\ shown = None
  /\ rerunning = FALSE
  /\ clicked = None
  /\ runs_since_click = 0

\* ------------------------------------------------- compile_tag_patterns
\* the exception the loop body raises on definition t, or "ok"
DefError(t) ==
  IF t.ty = "list"
    THEN IF \E i \in DOMAIN t.v : t.v[i].ty # "str" THEN "AttributeError"  \* x.lower()
         ELSE IF Len(t.v) = 0 THEN "IndexError"                            \* t[0]
         ELSE "ok"
    ELSE IF t.ty = "str" THEN "ok" ELSE "AttributeError"                   \* t.lower()

\* the tuple (label, tag name, compiled regex); the regex is the alternation
\* of the escaped lower-cased synonyms, kept as the sequence of its literals
CompileOne(label, t) ==
  IF t.ty = "list"
    THEN [label |-> label, tag_name |-> t.v[1].v,
          regex |-> [i \in 1..Len(t.v) |-> Lower(t.v[i].v)]]
    ELSE [label |-> label, tag_name |-> t.v, regex |-> << Lower(t.v) >>]

compile_tag_patterns(tl) ==
  LET bad == { i \in DOMAIN tl : DefError(tl[i]) # "ok" }
  IN IF bad = {}
       THEN [err |-> "ok", patterns |-> [i \in 1..Len(tl) |-> CompileOne(i - 1, tl[i])]]
       ELSE [err |-> DefError(tl[CHOOSE i \in bad : \A j \in bad : i <= j]),
             patterns |-> << >>]

\* ------------------------------------------------------------- tag_chunk
\* pattern.search(s): some literal of the alternation occurs in s
Search(regex, s) == \E i \in DOMAIN regex : Contains(s, regex[i])

\* str.contains with na=True: a missing caption counts as a match
Mask_NaTrue(row, p) == row.caption = None \/ Search(p.regex, Lower(row.caption[1]))

\* captions.str.contains(pattern, regex=True, na=False) for one row, where
\* captions = df_chunk['caption'].str.lower()
Mask(row, p) == row.caption # None /\ Search(p.regex, Lower(row.caption[1]))

\* lines 18-21: the chunk with both columns set to None
InitFrame(df_chunk) ==
  [i \in 1..Len(df_chunk) |->
     [id |-> df_chunk[i].id, caption |-> df_chunk[i].caption, tag |-> None, label |-> None]]

\* the loop body without the isna() guards: a later match overrides
TagStep_LastWins(frame, p) ==
  [i \in 1..Len(frame) |->
     [frame[i] EXCEPT
        !.tag = IF Mask(frame[i], p) THEN Some(p.tag_name) ELSE @,
        !.label = IF Mask(frame[i], p) THEN Some(p.label) ELSE @]]

\* the loop body with the label guard written as a truth test: label 0 counts as unset
TagStep_LabelFalsy(frame, p) ==
  [i \in 1..Len(frame) |->
     [frame[i] EXCEPT
        !.tag = IF Mask(frame[i], p) /\ frame[i].tag = None THEN Some(p.tag_name) ELSE @,
        !.label = IF Mask(frame[i], p) /\ (frame[i].label = None \/ frame[i].label = Some(0))
                    THEN Some(p.label) ELSE @]]

\* lines 24-26: one iteration of the loop over the patterns
TagStep(frame, p) ==
  [i \in 1..Len(frame) |->
     [frame[i] EXCEPT
        !.tag = IF Mask(frame[i], p) /\ frame[i].tag = None THEN Some(p.tag_name) ELSE @,
        !.label = IF Mask(frame[i], p) /\ frame[i].label = None THEN Some(p.label) ELSE @]]

\* the frame after the first n iterations of the loop
RECURSIVE TagLoop(_, _, _)
TagLoop(frame, ps, n) ==
  IF n = 0 THEN frame ELSE TagStep(TagLoop(frame, ps, n - 1), ps[n])

HasTag(row) == row.tag # None

\* df_chunk.dropna(subset=['tag'])
DropNa(frame) == SelectSeq(frame, HasTag)

tag_chunk(df_chunk, ps) == DropNa(TagLoop(InitFrame(df_chunk), ps, Len(ps)))

\* ----------------------------------------------- caption_labeller_parallel
\* len(DF) // chunk_size + 1
NumChunks(N, cs) == (N \div cs) + 1

\* section boundaries that leave the N % k remaining rows out
SectionStart_NoRemainder(N, k, j) == (j - 1) * (N \div k)

\* np.array_split(DF, k): the first N % k sections hold N // k + 1 rows, the
\* others N // k
SectionStart(N, k, j) == (j - 1) * (N \div k) + (IF j - 1 < N % k THEN j - 1 ELSE N % k)

\* sections filled to capacity one after the other, the last ones left empty
array_split_FullThenEmpty(df, k) ==
  LET N == Len(df)
      size == IF k > 1 THEN (N + k - 2) \div (k - 1) ELSE N
  IN [j \in 1..k |->
        SubSeq(df, (j - 1) * size + 1, IF j * size < N THEN j * size ELSE N)]

array_split(df, k) ==
  [j \in 1..k |->
     SubSeq(df, SectionStart(Len(df), k, j) + 1, SectionStart(Len(df), k, j + 1))]

\* the results collected in the order the workers finished
ParallelResults_ByCompletion == [j \in 1..Len(chunks) |-> processed[completed[j]]]

\* the list Parallel(...) returns: one result per chunk, in the order of chunks
ParallelResults == [j \in 1..Len(chunks) |-> processed[j]]

\* pd.concat(frames, ignore_index=True)
RECURSIVE Concat(_, _)
Concat(frames, n) == IF n = 0 THEN << >> ELSE Concat(frames, n - 1) \o frames[n]

pd_concat(frames) == Concat(frames, Len(frames))

\* newdf[newdf.tag.isin(take_tags)]
InTakeTags(row) == row.tag # None /\ row.tag[1] \in take_tags

\* the caller's filter left out
isin_filter_Identity(frame) == frame

isin_filter(frame) == SelectSeq(frame, InTakeTags)

\* DF_out['tag'].value_counts().to_dict()
TagsOf(frame) == { frame[i].tag[1] : i \in DOMAIN frame }

\* the counts taken after the allow-list filter
value_counts_AllowListed(frame) ==
  [t \in TagsOf(isin_filter(frame)) |->
     Cardinality({ i \in DOMAIN frame : frame[i].tag = Some(t) })]

value_counts(frame) ==
  [t \in TagsOf(frame) |-> Cardinality({ i \in DOMAIN frame : frame[i].tag = Some(t) })]

MaxOf(S) == CHOOSE m \in S : \A x \in S : x <= m

\* nearest integer to num / den, ties to the even neighbour (np.around)
RoundHalfEven(num, den) ==
  LET q == num \div den
      r == num % den
  IN IF 2 * r < den THEN q
     ELSE IF 2 * r > den THEN q + 1
     ELSE IF q % 2 = 0 THEN q ELSE q + 1

\* the weight cut to two decimals instead of rounded
Weight_Truncate(v, max_val) == (v * 2000 + 700 * max_val) \div max_val

\* np.around(v * 20 / max_val + 7, 2), in hundredths
Weight(v, max_val) == RoundHalfEven(v * 2000 + 700 * max_val, max_val)

size_dict(counts) ==
  [t \in DOMAIN counts |-> Weight(counts[t], MaxOf({ counts[u] : u \in DOMAIN counts }))]

\* dict(sorted(size_dict.items(), key=lambda x: x[1])): the orders of the items
\* that ascend by weight (the order of equal weights is that of value_counts,
\* which pandas does not fix)
SortedItems(sd) ==
  { s \in [1..Cardinality(DOMAIN sd) -> { << t, sd[t] >> : t \in DOMAIN sd }] :
      /\ \A i, j \in DOMAIN s : i # j => s[i] # s[j]
      /\ \A i, j \in DOMAIN s : i < j => s[i][2] <= s[j][2] }

\* -------------------------------------------------------------------- Init
Init ==
  /\ tag_list \in TagLists
  /\ DF \in InputFrames
  /\ chunk_size \in 1..MaxChunkSize
  /\ n_jobs \in 1..MaxJobs
  /\ pc = "start"
  /\ err = "none"
  /\ patterns = << >>
  /\ chunks = << >>
  /\ status = << >>
  /\ processed = << >>
  /\ completed = << >>
  /\ work = << >>
  /\ pidx = -1
  /\ DF_out = << >>
  /\ sorted_dict = << >>
  /\ newdf2 = << >>
  /\ relabel = FALSE
  /\ first_out = << >>
  /\ ViewerIdle

\* ----------------------------------------------------------------- actions
\* line 35, every definition well formed
CompileOk ==
  /\ pc = "start"
  /\ compile_tag_patterns(tag_list).err = "ok"
  /\ patterns' = compile_tag_patterns(tag_list).patterns
  /\ pc' = "compiled"
  /\ UNCHANGED << tag_list, DF, chunk_size, n_jobs, err, chunks, status, processed,
                  completed, DF_out, sorted_dict, newdf2, relabel, first_out, work, pidx, viewerVars >>

\* line 35, a definition raises: the call ends with that exception
CompileRaise ==
  /\ pc = "start"
  /\ compile_tag_patterns(tag_list).err # "ok"
  /\ err' = compile_tag_patterns(tag_list).err
  /\ pc' = "raised"
  /\ UNCHANGED << tag_list, DF, chunk_size, n_jobs, patterns, chunks, status, processed,
                  completed, DF_out, sorted_dict, newdf2, relabel, first_out, work, pidx, viewerVars >>

\* line 37
Split ==
  /\ pc = "compiled"
  /\ chunks' = array_split(DF, NumChunks(Len(DF), chunk_size))
  /\ status' = [j \in 1..NumChunks(Len(DF), chunk_size) |-> "pending"]
  /\ processed' = [j \in 1..NumChunks(Len(DF), chunk_size) |-> << >>]
  /\ completed' = << >>
  /\ pc' = "labelling"
  /\ UNCHANGED << tag_list, DF, chunk_size, n_jobs, err, patterns, DF_out, sorted_dict,
                  newdf2, relabel, first_out, work, pidx, viewerVars >>

Running == { j \in DOMAIN status : status[j] = "running" }

\* lines 39-42: the next chunk of the generator is copied and handed to a free worker
Dispatch(k) ==
  /\ pc = "labelling"
  /\ k \in DOMAIN status
  /\ status[k] = "pending"
  /\ \A j \in 1..(k - 1) : status[j] # "pending"
  /\ Cardinality(Running) < n_jobs
  /\ status' = [status EXCEPT ![k] = "running"]
  /\ UNCHANGED << tag_list, DF, chunk_size, n_jobs, pc, err, patterns, chunks, processed,
                  completed, DF_out, sorted_dict, newdf2, relabel, first_out, work, pidx, viewerVars >>

\* lines 17-28 in a worker: tag_chunk on the worker's copy of chunk k
Finish(k) ==
  /\ pc = "labelling"
  /\ k \in DOMAIN status
  /\ status[k] = "running"
  /\ processed' = [processed EXCEPT ![k] = tag_chunk(chunks[k], patterns)]
  /\ status' = [status EXCEPT ![k] = "done"]
  /\ completed' = Append(completed, k)
  /\ UNCHANGED << tag_list, DF, chunk_size, n_jobs, pc, err, patterns, chunks,
                  DF_out, sorted_dict, newdf2, relabel, first_out, work, pidx, viewerVars >>

\* line 44, once every worker has returned
ConcatResults ==
  /\ pc = "labelling"
  /\ \A j \in DOMAIN status : status[j] = "done"
  /\ DF_out' = pd_concat(ParallelResults)
  /\ pc' = "concatenated"
  /\ UNCHANGED << tag_list, DF, chunk_size, n_jobs, err, patterns, chunks, status,
                  processed, completed, sorted_dict, newdf2, relabel, first_out, work, pidx, viewerVars >>

\* lines 47-62, some row is labelled
SizeDictOk ==
  /\ pc = "concatenated"
  /\ DF_out # << >>
  /\ sorted_dict' \in SortedItems(size_dict(value_counts(DF_out)))
  /\ pc' = "returned"
  /\ UNCHANGED << tag_list, DF, chunk_size, n_jobs, err, patterns, chunks, status,
                  processed, completed, DF_out, newdf2, relabel, first_out, work, pidx, viewerVars >>

\* line 53, no row is labelled: max() of an empty sequence raises ValueError
SizeDictRaise ==
  /\ pc = "concatenated"
  /\ DF_out = << >>
  /\ err' = "ValueError"
  /\ pc' = "raised"
  /\ UNCHANGED << tag_list, DF, chunk_size, n_jobs, patterns, chunks, status,
                  processed, completed, DF_out, sorted_dict, newdf2, relabel, first_out, work, pidx, viewerVars >>

\* lines 171-173: the caller keeps the rows whose tag is in take_tags
Filter ==
  /\ pc = "returned"
  /\ newdf2' = isin_filter(DF_out)
  /\ pc' = "done"
  /\ UNCHANGED << tag_list, DF, chunk_size, n_jobs, err, patterns, chunks, status,
                  processed, completed, DF_out, sorted_dict, relabel, first_out, work, pidx, viewerVars >>

\* a second call of caption_labeller_parallel, on the frame the first returned,
\* with the same tag_list and any chunk size
Relabel ==
  /\ pc = "done"
  /\ ~relabel
  /\ relabel' = TRUE
  /\ first_out' = DF_out
  /\ DF' = DF_out
  /\ chunk_size' \in 1..MaxChunkSize
  /\ pc' = "start"
  /\ patterns' = << >>
  /\ chunks' = << >>
  /\ status' = << >>
  /\ processed' = << >>
  /\ completed' = << >>
  /\ DF_out' = << >>
  /\ UNCHANGED << tag_list, n_jobs, err, sorted_dict, newdf2, work, pidx, viewerVars >>

Next ==
  \/ CompileOk
  \/ CompileRaise
  \/ Split
  \/ \E k \in 1..(MaxRows + 1) : Dispatch(k)
  \/ \E k \in 1..(MaxRows + 1) : Finish(k)
  \/ ConcatResults
  \/ SizeDictOk
  \/ SizeDictRaise
  \/ Filter
  \/ Relabel

Spec == Init /\ [][Next]_vars

\* ------------------------------------------- the frequency normaliser alone
\* a corpus of a captions "C-AFM" followed by b captions "KPFM"
NormFrame(a, b) ==
  [i \in 1..(a + b) |-> [id |-> i, caption |-> IF i <= a THEN Some(sCAFM) ELSE Some(sKPFM)]]

\* the state after line 44 for such a corpus, labelled as a single chunk
InitNorm ==
  /\ tag_list = TagListSrc
  /\ \E a, b \in 0..MaxCount : DF = NormFrame(a, b)
  /\ chunk_size = Len(DF) + 1
  /\ n_jobs = 1
  /\ pc = "concatenated"
  /\ err = "none"
  /\ patterns = compile_tag_patterns(tag_list).patterns
  /\ chunks = array_split(DF, NumChunks(Len(DF), chunk_size))
  /\ status = [j \in 1..Len(chunks) |-> "done"]
  /\ processed = [j \in 1..Len(chunks) |-> tag_chunk(chunks[j], patterns)]
  /\ completed = [j \in 1..Len(chunks) |-> j]
  /\ work = << >>
  /\ pidx = -1
  /\ DF_out = pd_concat(ParallelResults)
  /\ sorted_dict = << >>
  /\ newdf2 = << >>
  /\ relabel = FALSE
  /\ first_out = << >>
  /\ ViewerIdle

NextNorm ==
  \/ SizeDictOk
  \/ SizeDictRaise
  \/ Filter

SpecNorm == InitNorm /\ [][NextNorm]_vars

\* ------------------------------------------------ tag_chunk, step by step
\* a worker at the entry of tag_chunk, with its copy of a chunk
InitChunk ==
  /\ tag_list \in { TagListSrc, TagListStr }
  /\ DF \in InputChunks
  /\ chunk_size = Len(DF) + 1
  /\ n_jobs = 1
  /\ pc = "labelling"
  /\ err = "none"
  /\ patterns = compile_tag_patterns(tag_list).patterns
  /\ chunks = array_split(DF, NumChunks(Len(DF), chunk_size))
  /\ status = [j \in 1..Len(chunks) |-> "running"]
  /\ processed = [j \in 1..Len(chunks) |-> << >>]
  /\ completed = << >>
  /\ work = << >>
  /\ pidx = -1
  /\ DF_out = << >>
  /\ sorted_dict = << >>
  /\ newdf2 = << >>
  /\ relabel = FALSE
  /\ first_out = << >>
  /\ ViewerIdle

\* lines 18-21
TagChunkStart ==
  /\ status = << "running" >>
  /\ pidx = -1
  /\ work' = InitFrame(chunks[1])
  /\ pidx' = 0
  /\ UNCHANGED << tag_list, DF, chunk_size, n_jobs, pc, err, patterns, chunks, status,
                  processed, completed, DF_out, sorted_dict, newdf2, relabel, first_out, viewerVars >>

\* lines 23-26, for the next pattern
TagChunkStep ==
  /\ status = << "running" >>
  /\ pidx >= 0
  /\ pidx < Len(patterns)
  /\ work' = TagStep(work, patterns[pidx + 1])
  /\ pidx' = pidx + 1
  /\ UNCHANGED << tag_list, DF, chunk_size, n_jobs, pc, err, patterns, chunks, status,
                  processed, completed, DF_out, sorted_dict, newdf2, relabel, first_out, viewerVars >>

\* line 28
TagChunkReturn ==
  /\ status = << "running" >>
  /\ pidx = Len(patterns)
  /\ processed' = [processed EXCEPT ![1] = DropNa(work)]
  /\ status' = [status EXCEPT ![1] = "done"]
  /\ completed' = Append(completed, 1)
  /\ UNCHANGED << tag_list, DF, chunk_size, n_jobs, pc, err, patterns, chunks, work, pidx,
                  DF_out, sorted_dict, newdf2, relabel, first_out, viewerVars >>

NextChunk ==
  \/ TagChunkStart
  \/ TagChunkStep
  \/ TagChunkReturn

SpecChunk == InitChunk /\ [][NextChunk]_vars

\* -------------------------------------------- the chunking, on longer frames
\* a corpus of N rows whose captions cycle through Captions
CaptionCycle == << None, Some(sKPFM), Some(sCAFM) >>

SplitFrame(N) == [i \in 1..N |-> [id |-> i, caption |-> CaptionCycle[(i % 3) + 1]]]

\* the state after line 35 for such a corpus, labelled by a single worker
InitSplit ==
  /\ tag_list = TagListSrc
  /\ \E N \in 0..MaxSplitRows : DF = SplitFrame(N)
  /\ chunk_size \in 1..MaxSplitChunkSize
  /\ n_jobs = 1
  /\ pc = "compiled"
  /\ err = "none"
  /\ patterns = compile_tag_patterns(tag_list).patterns
  /\ chunks = << >>
  /\ status = << >>
  /\ processed = << >>
  /\ completed = << >>
  /\ work = << >>
  /\ pidx = -1
  /\ DF_out = << >>
  /\ sorted_dict = << >>
  /\ newdf2 = << >>
  /\ relabel = FALSE
  /\ first_out = << >>
  /\ ViewerIdle

NextSplit ==
  \/ Split
  \/ \E k \in 1..(MaxSplitRows + 1) : Dispatch(k)
  \/ \E k \in 1..(MaxSplitRows + 1) : Finish(k)
  \/ ConcatResults

SpecSplit == InitSplit /\ [][NextSplit]_vars

\* ------------------------------------------- the viewer, src/src/dashboard.py
\* One script run is one action: Streamlit runs the script top to bottom for
\* every user event, and st.rerun() ends the run and starts the next one.
sF1 == << "F", "1" >>
sF2 == << "F", "2" >>
sJ1 == << "J", "1" >>
sJ2 == << "J", "2" >>
sP1 == << "P", "1" >>
sP2 == << "P", "2" >>
sP3 == << "P", "3" >>
sLowerAfm == << "a", "f", "m" >>
sLowerTem == << "t", "e", "m" >>
sXrd == << "x", "r", "d" >>

\* corpus_acta_mini_tagged.csv reduced to its (journal, pii) pairs
journal_pii_df == { << sJ1, sP1 >>, << sJ2, sP2 >>, << sJ2, sP3 >> }

pii_to_journal(pii) ==
  IF \E r \in journal_pii_df : r[2] = pii
  THEN (CHOOSE r \in journal_pii_df : r[2] = pii)[1]
  ELSE << "U", "n", "k", "n", "o", "w", "n" >>

\* pii_fig_ref_para_dict.jsonl as prepare_corpus.py writes it: a figure without
\* an id attribute has figure_id None, a figure without a caption has caption "".
LoadedData ==
  << [pii |-> sP1, figure_id |-> Some(sF1), caption |-> sAFM, descriptions |-> << >>],
     [pii |-> sP1, figure_id |-> Some(sF2), caption |-> << >>, descriptions |-> << sTEM, sLowerAfm >>],
     [pii |-> sP2, figure_id |-> Some(sF1), caption |-> sTEM, descriptions |-> << sAFM >>],
     [pii |-> sP3, figure_id |-> None, caption |-> sTEM, descriptions |-> << >>] >>

data ==
  [i \in DOMAIN LoadedData |->
     [pii |-> LoadedData[i].pii, figure_id |-> LoadedData[i].figure_id,
      caption |-> LoadedData[i].caption, descriptions |-> LoadedData[i].descriptions,
      journal |-> pii_to_journal(LoadedData[i].pii)]]

Queries == { << >>, sLowerAfm, sTEM, sXrd }

ViewOptions == << "Search", "Browse" >>

\* the order of Python's sorted() on the identifiers of the data
SortOrder == << None, sF1, sF2, sJ1, sJ2, sP1, sP2, sP3, Some(sF1), Some(sF2) >>

RankOf(x) == CHOOSE i \in DOMAIN SortOrder : SortOrder[i] = x

RECURSIVE sorted(_)
sorted(S) ==
  IF S = {} THEN << >>
  ELSE LET m == CHOOSE x \in S : \A y \in S : RankOf(x) <= RankOf(y)
       IN  << m >> \o sorted(S \ {m})

\* search_figures: does one entry match
EntryMatches(entry, q, search_in_caption, search_in_descriptions) ==
  \/ /\ search_in_caption
     /\ entry.caption # << >>
     /\ Contains(Lower(entry.caption), Lower(q))
  \/ /\ search_in_descriptions
     /\ \E i \in DOMAIN entry.descriptions :
          Contains(Lower(entry.descriptions[i]), Lower(q))

search_figures(d, q, search_in_caption, search_in_descriptions) ==
  IF q = << >> THEN << >>
  ELSE SelectSeq(d, LAMBDA entry :
                      EntryMatches(entry, q, search_in_caption, search_in_descriptions))

\* lines 72-76: the one-shot flag decides the selector's default and is deleted
SwitchRequested(ss) == ss["switch_to_browse"] # None /\ ss["switch_to_browse"][1]

DefaultIndex(ss) == IF SwitchRequested(ss) THEN 1 ELSE 0

AfterSwitch(ss) ==
  IF SwitchRequested(ss) THEN [ss EXCEPT !["switch_to_browse"] = None] ELSE ss

\* st.radio without a key: the widget is identified by its arguments, index
\* among them; a selector rendered with another index than in the last run is
\* a new widget and returns its default, the same one keeps its value
RadioValue(w, index) ==
  IF w.index = index THEN w.value ELSE ViewOptions[index + 1]

\* lines 223-250: the select boxes of the sidebar
journals == sorted({ r[1] : r \in journal_pii_df })

available_piis(j) == sorted({ r[2] : r \in { x \in journal_pii_df : x[1] = j } })

available_figures(p) ==
  sorted({ data[i].figure_id : i \in { k \in DOMAIN data : data[k].pii = p } })

SidebarChoices ==
  { [journal |-> j, pii |-> p, figure |-> f] :
      j \in { r[1] : r \in journal_pii_df },
      p \in { r[2] : r \in journal_pii_df },
      f \in { data[i].figure_id : i \in DOMAIN data } }

ValidSidebar(s) ==
  /\ << s.journal, s.pii >> \in journal_pii_df
  /\ \E i \in DOMAIN data : data[i].pii = s.pii /\ data[i].figure_id = s.figure

DefaultSidebar ==
  LET j == journals[1]
      p == available_piis(j)[1]
  IN  [journal |-> j, pii |-> p, figure |-> available_figures(p)[1]]

\* lines 253-261: a navigation request overrides the selection and is deleted
NavigationRequested(ss) == ss["selected_pii"] # None /\ ss["selected_figure"] # None

ConsumeSelection(ss) ==
  IF NavigationRequested(ss)
  THEN [ss EXCEPT !["selected_pii"] = None, !["selected_figure"] = None,
                  !["selected_journal"] = None]
  ELSE ss

\* lines 264-320: the entry the Browse view displays; None is the prompt to
\* select a figure (selected_figure falsy) or the not-found warning
Displayed(pii, figure) ==
  IF figure # None /\ \E i \in DOMAIN data : data[i].pii = pii /\ data[i].figure_id = figure
  THEN Some(<< pii, figure >>)
  ELSE None

\* a whole script run that no button click triggered, lines 71-320
RunScript(w, q, opts, sb) ==
  LET index == DefaultIndex(session_state)
      ss1 == AfterSwitch(session_state)
      mode == RadioValue(w, index)
  IN  /\ radio_widget' = [index |-> index, value |-> mode]
      /\ default_view' = ViewOptions[index + 1]
      /\ view_mode' = mode
      /\ IF mode = "Search"
         THEN /\ search_query' = q
              /\ search_opts' = opts
              /\ search_results' = search_figures(data, q, opts.caption, opts.descriptions)
              /\ sidebar' = None
              /\ shown' = None
              /\ session_state' = ss1
         ELSE LET side == IF sb = None THEN DefaultSidebar ELSE sb[1]
                  nav == NavigationRequested(ss1)
                  selected_pii == IF nav THEN ss1["selected_pii"][1] ELSE side.pii
                  selected_figure == IF nav THEN ss1["selected_figure"][1] ELSE side.figure
              IN  /\ search_query' = << >>
                  /\ search_opts' = [caption |-> TRUE, descriptions |-> TRUE]
                  /\ search_results' = << >>
                  /\ sidebar' = Some(side)
                  /\ shown' = Displayed(selected_pii, selected_figure)
                  /\ session_state' = ConsumeSelection(ss1)

CountRun ==
  runs_since_click' = IF clicked = None \/ runs_since_click = 2
                      THEN runs_since_click ELSE runs_since_click + 1

\* the page is opened
Load ==
  /\ view_mode = "none"
  /\ RunScript(radio_widget, << >>, search_opts, None)
  /\ CountRun
  /\ UNCHANGED << rerunning, clicked, pipelineVars >>

\* the user picks the other view in the selector
SelectView(v) ==
  /\ view_mode # "none"
  /\ ~rerunning
  /\ v # radio_widget.value
  /\ RunScript([radio_widget EXCEPT !.value = v], search_query, search_opts, sidebar)
  /\ CountRun
  /\ UNCHANGED << rerunning, clicked, pipelineVars >>

\* the user edits the search box or a check box, lines 140-160
SearchInput(q, opts) ==
  /\ view_mode = "Search"
  /\ ~rerunning
  /\ << q, opts >> # << search_query, search_opts >>
  /\ RunScript(radio_widget, q, opts, sidebar)
  /\ CountRun
  /\ UNCHANGED << rerunning, clicked, pipelineVars >>

\* the user changes a select box of the sidebar, lines 223-250
ChangeSidebar(s) ==
  /\ view_mode = "Browse"
  /\ ~rerunning
  /\ ValidSidebar(s)
  /\ sidebar # Some(s)
  /\ RunScript(radio_widget, search_query, search_opts, Some(s))
  /\ CountRun
  /\ UNCHANGED << rerunning, clicked, pipelineVars >>

\* the user clicks "View Full Details" of result idx: the run reaches the
\* button, stores the request and calls st.rerun(), lines 190-195
ClickViewDetails(idx) ==
  LET index == DefaultIndex(session_state)
      ss1 == AfterSwitch(session_state)
      mode == RadioValue(radio_widget, index)
      entry == search_results[idx]
  IN  /\ view_mode = "Search"
      /\ ~rerunning
      /\ idx \in DOMAIN search_results
      /\ mode = "Search"
      /\ radio_widget' = [index |-> index, value |-> mode]
      /\ default_view' = ViewOptions[index + 1]
      /\ session_state' = [ss1 EXCEPT !["selected_pii"] = Some(entry.pii),
                                      !["selected_figure"] = Some(entry.figure_id),
                                      !["selected_journal"] = Some(entry.journal),
                                      !["switch_to_browse"] = Some(TRUE)]
      /\ rerunning' = TRUE
      /\ clicked' = Some(<< entry.pii, entry.figure_id >>)
      /\ runs_since_click' = 0
      /\ UNCHANGED << view_mode, search_query, search_opts, search_results, sidebar,
                      shown, pipelineVars >>

\* the run st.rerun() started
Rerun ==
  /\ rerunning
  /\ RunScript(radio_widget, search_query, search_opts, sidebar)
  /\ rerunning' = FALSE
  /\ CountRun
  /\ UNCHANGED << clicked, pipelineVars >>

SearchOpts == [caption : BOOLEAN, descriptions : BOOLEAN]

InitView ==
  /\ tag_list = TagListSrc
  /\ DF = << >>
  /\ chunk_size = 1
  /\ n_jobs = 1
  /\ pc = "done"
  /\ err = "none"
  /\ patterns = << >>
  /\ chunks = << >>
  /\ status = << >>
  /\ processed = << >>
  /\ completed = << >>
  /\ work = << >>
  /\ pidx = -1
  /\ DF_out = << >>
  /\ sorted_dict = << >>
  /\ newdf2 = << >>
  /\ relabel = FALSE
  /\ first_out = << >>
  /\ ViewerIdle

NextView ==
  \/ Load
  \/ \E v \in { "Search", "Browse" } : SelectView(v)
  \/ \E q \in Queries, opts \in SearchOpts : SearchInput(q, opts)
  \/ \E s \in SidebarChoices : ChangeSidebar(s)
  \/ \E idx \in 1..Len(data) : ClickViewDetails(idx)
  \/ Rerun

SpecView == InitView /\ [][NextView]_vars

\* ================================================================== claims
\* vocabulary of the claims, stated on the definitions and captions themselves
Synonyms(t) == IF t.ty = "list" THEN { t.v[i].v : i \in DOMAIN t.v } ELSE { t.v }

CanonicalName(t) == IF t.ty = "list" THEN t.v[1].v ELSE t.v

\* syn occurs in cap as a literal substring, letter case ignored
OccursIgnoringCase(syn, cap) ==
  \E off \in 0..(Len(cap) - Len(syn)) :
    \A j \in 1..Len(syn) : LowerChar(cap[off + j]) = LowerChar(syn[j])

DefMatches(t, caption) ==
  caption # None /\ \E syn \in Synonyms(t) : OccursIgnoringCase(syn, caption[1])

MatchingDefs(caption) == { d \in DOMAIN tag_list : DefMatches(tag_list[d], caption) }

FirstMatch(caption) == CHOOSE d \in MatchingDefs(caption) : \A e \in MatchingDefs(caption) : d <= e

Concatenated == pc \in { "concatenated", "returned", "done" }

Returned == pc \in { "returned", "done" }

CountOf(t) == Cardinality({ j \in DOMAIN DF_out : DF_out[j].tag = Some(t) })

OutTags == { DF_out[j].tag[1] : j \in DOMAIN DF_out }

MaxCountOut == CHOOSE m \in { CountOf(t) : t \in OutTags } : \A t \in OutTags : CountOf(t) <= m

Abs(x) == IF x < 0 THEN -x ELSE x

\* tag_chunk has returned (SpecChunk)
ChunkDone == status = << "done" >> /\ pidx >= 0

\* the worker is inside the loop of tag_chunk (SpecChunk)
InLoop == status = << "running" >> /\ pidx >= 0

ReturnedRowsOf(id) == { j \in DOMAIN processed[1] : processed[1][j].id = id }

\* C1: tag_chunk returns every row of the chunk that some definition matches,
\* labelled with the canonical name of the first matching definition in
\* definition order, whatever later definitions match; it returns no other row.
C1_FirstMatchWins ==
  ChunkDone =>
    \A i \in DOMAIN DF :
      LET out == ReturnedRowsOf(DF[i].id)
      IN IF MatchingDefs(DF[i].caption) # {}
           THEN /\ Cardinality(out) = 1
                /\ \A j \in out :
                     processed[1][j].tag =
                       Some(CanonicalName(tag_list[FirstMatch(DF[i].caption)]))
           ELSE out = {}

\* C1 witness: a returned row whose caption is also matched by a later
\* definition through a longer synonym, and which carries the earlier tag.
C1_Witness ==
  /\ ChunkDone
  /\ \E i \in DOMAIN DF, j \in DOMAIN processed[1], d, e \in DOMAIN tag_list :
       /\ processed[1][j].id = DF[i].id
       /\ d < e
       /\ d = FirstMatch(DF[i].caption)
       /\ \E s1 \in Synonyms(tag_list[d]), s2 \in Synonyms(tag_list[e]) :
            /\ OccursIgnoringCase(s1, DF[i].caption[1])
            /\ OccursIgnoringCase(s2, DF[i].caption[1])
            /\ Len(s2) > Len(s1)
       /\ processed[1][j].tag = Some(CanonicalName(tag_list[d]))

\* C2: every row tag_chunk returns has a tag and a label, the label being the
\* index of a definition whose canonical name is the tag; and after every
\* iteration of the loop a row of the frame has both or neither.
C2_TagAndLabelTogether ==
  /\ ChunkDone =>
       \A j \in DOMAIN processed[1] :
         /\ processed[1][j].tag # None
         /\ processed[1][j].label # None
         /\ processed[1][j].label[1] \in 0..(Len(tag_list) - 1)
         /\ CanonicalName(tag_list[processed[1][j].label[1] + 1]) = processed[1][j].tag[1]
  /\ InLoop =>
       \A i \in DOMAIN work : (work[i].tag = None) <=> (work[i].label = None)

\* C2 witness: a returned frame with a row labelled 0 and a row labelled otherwise.
C2_Witness ==
  /\ ChunkDone
  /\ \E j, l \in DOMAIN processed[1] :
       processed[1][j].label = Some(0) /\ processed[1][l].label[1] > 0

\* C3: the concatenated rows are input rows, in the order of the input.
C3_InputOrderPreserved ==
  Concatenated =>
    /\ \A j \in DOMAIN DF_out :
         \E i \in DOMAIN DF : DF[i].id = DF_out[j].id /\ DF[i].caption = DF_out[j].caption
    /\ \A j, l \in DOMAIN DF_out :
         j < l =>
           \E i, m \in DOMAIN DF : i < m /\ DF[i].id = DF_out[j].id /\ DF[m].id = DF_out[l].id

\* C3 witness: a later chunk finished before an earlier one and both hold
\* labelled rows.
C3_Witness ==
  /\ Concatenated
  /\ \E a, b \in DOMAIN completed :
       /\ a < b
       /\ completed[a] > completed[b]
       /\ processed[completed[a]] # << >>
       /\ processed[completed[b]] # << >>

NoText(caption) == caption = None \/ caption = Some(<< >>)

\* C4: a row whose caption is null or empty has no tag and no label after any
\* iteration of the loop, and is not among the rows tag_chunk returns.
C4_NullCaptionDropped ==
  /\ InLoop =>
       \A i \in DOMAIN work :
         NoText(work[i].caption) => (work[i].tag = None /\ work[i].label = None)
  /\ ChunkDone =>
       \A i \in DOMAIN DF : NoText(DF[i].caption) => ReturnedRowsOf(DF[i].id) = {}

\* C4 witness: tag_chunk returns rows of a chunk that holds a null caption and
\* an empty caption.
C4_Witness ==
  /\ ChunkDone
  /\ processed[1] # << >>
  /\ \E i, m \in DOMAIN DF : DF[i].caption = None /\ DF[m].caption = Some(<< >>)

\* C5 (as claimed): once the chunks are concatenated into an empty frame, the
\* call raises nothing and returns an empty mapping.
C5_EmptyOutputReturnsEmptyMapping ==
  (chunks # << >> /\ pc \in { "returned", "done", "raised" } /\ DF_out = << >>) =>
    (pc # "raised" /\ sorted_dict = << >>)

\* C6: every tag of the labelled frame has a weight, the weight is the
\* hundredth nearest to count * 20 / maxCount + 7, lies in [7, 27], and is 27.0
\* for a tag with the highest count.
C6_WeightFormula ==
  Returned =>
    /\ { sorted_dict[i][1] : i \in DOMAIN sorted_dict } = OutTags
    /\ \A i \in DOMAIN sorted_dict :
         LET c == CountOf(sorted_dict[i][1])
             w == sorted_dict[i][2]
         IN /\ 2 * Abs(w * MaxCountOut - (2000 * c + 700 * MaxCountOut)) <= MaxCountOut
            /\ w >= 700
            /\ w <= 2700
            /\ (c = MaxCountOut => w = 2700)

\* C6 witness: a mapping with a weight of 27.0 and a weight that had to be rounded.
C6_Witness ==
  /\ Returned
  /\ \E i, j \in DOMAIN sorted_dict :
       /\ sorted_dict[i][2] = 2700
       /\ (2000 * CountOf(sorted_dict[j][1])) % MaxCountOut # 0

\* C7: the final dataset is the labelled frame restricted to the rows whose
\* tag is in take_tags, in the same order; a row whose first matching
\* definition is not in take_tags is dropped whatever else matches.
C7_AllowListFilter ==
  pc = "done" =>
    /\ \A j \in DOMAIN DF_out :
         (\E l \in DOMAIN newdf2 : newdf2[l] = DF_out[j]) <=> (DF_out[j].tag[1] \in take_tags)
    /\ Len(newdf2) = Cardinality({ j \in DOMAIN DF_out : DF_out[j].tag[1] \in take_tags })
    /\ \A l, m \in DOMAIN newdf2 : l < m => newdf2[l].id < newdf2[m].id
    /\ \A i \in DOMAIN DF :
         (/\ MatchingDefs(DF[i].caption) # {}
          /\ CanonicalName(tag_list[FirstMatch(DF[i].caption)]) \notin take_tags)
           => \A l \in DOMAIN newdf2 : newdf2[l].id # DF[i].id

\* C7 witness: the final dataset keeps a row and drops a row whose first match
\* is not allow-listed although a later, allow-listed definition matches it.
C7_Witness ==
  /\ pc = "done"
  /\ newdf2 # << >>
  /\ \E i \in DOMAIN DF, e \in DOMAIN tag_list :
       /\ e \in MatchingDefs(DF[i].caption)
       /\ CanonicalName(tag_list[e]) \in take_tags
       /\ CanonicalName(tag_list[FirstMatch(DF[i].caption)]) \notin take_tags
       /\ \A l \in DOMAIN newdf2 : newdf2[l].id # DF[i].id

\* C8 (as claimed): every key of the returned mapping is a tag of take_tags.
C8_MappingOnlyAllowListed ==
  Returned => \A i \in DOMAIN sorted_dict : sorted_dict[i][1] \in take_tags

\* C8 (amended): the mapping is computed from every labelled row, before the
\* caller filters: its keys are the tags of the labelled frame, in take_tags or
\* not, and the weight 27.0 goes to the tags with the highest count among them.
C8_MappingFromAllLabelledRows ==
  Returned =>
    /\ { sorted_dict[i][1] : i \in DOMAIN sorted_dict } = OutTags
    /\ Len(sorted_dict) = Cardinality(OutTags)
    /\ \A i \in DOMAIN sorted_dict :
         (sorted_dict[i][2] = 2700) <=> (CountOf(sorted_dict[i][1]) = MaxCountOut)

\* C8 witness: after the filter, the mapping holds a key outside take_tags with
\* weight 27.0 and an allow-listed key with a smaller weight.
C8_Witness ==
  /\ pc = "done"
  /\ \E i, j \in DOMAIN sorted_dict :
       /\ sorted_dict[i][1] \notin take_tags
       /\ sorted_dict[i][2] = 2700
       /\ sorted_dict[j][1] \in take_tags
       /\ sorted_dict[j][2] < 2700

\* C9: labelling the returned frame again, with the same definitions and any
\* chunk size, gives the same frame.
C9_RelabelIdempotent ==
  (relabel /\ Concatenated) => DF_out = first_out

\* C9 witness: a frame of several rows relabelled in more than one chunk that
\* holds rows.
C9_Witness ==
  /\ relabel
  /\ Returned
  /\ Len(DF_out) >= 2
  /\ \E a, b \in DOMAIN processed : a # b /\ processed[a] # << >> /\ processed[b] # << >>

\* a definition that is neither a string nor a list of strings
Malformed(t) ==
  /\ t.ty # "str"
  /\ ~(t.ty = "list" /\ \A i \in DOMAIN t.v : t.v[i].ty = "str")

\* C10 (as claimed): with a malformed definition the call ends in compilation
\* with InvalidTagDefinition.
C10_InvalidTagDefinition ==
  ((\E d \in DOMAIN tag_list : Malformed(tag_list[d])) /\ pc # "start") =>
    (pc = "raised" /\ err = "InvalidTagDefinition" /\ chunks = << >>)

\* np.array_split has run
SplitDone == pc \in { "labelling", "concatenated", "returned", "done" }

\* ceil(N / cs)
CeilDiv(N, cs) == (N + cs - 1) \div cs

\* C11 (as claimed): the rows are partitioned into exactly ceil(N / chunkSize)
\* chunks.
C11_CeilChunkCount ==
  SplitDone => Len(chunks) = CeilDiv(Len(DF), chunk_size)

\* C12 (as claimed): when chunkSize divides N there is one extra chunk, it is
\* empty, and every other chunk holds chunkSize rows.
C12_ExtraChunkEmpty ==
  (SplitDone /\ Len(DF) % chunk_size = 0) =>
    /\ Len(chunks) = (Len(DF) \div chunk_size) + 1
    /\ chunks[Len(chunks)] = << >>
    /\ \A j \in 1..(Len(chunks) - 1) : Len(chunks[j]) = chunk_size

\* C12 (amended): when chunkSize divides N there is one extra chunk, but the
\* rows are spread over all the chunks: sizes never increase and differ by at
\* most one, so a chunk is empty only if chunkSize is 1 or N is 0, and for
\* chunkSize > 1 and N > 0 some chunk holds fewer than chunkSize rows.
C12_ExtraChunkRowsSpread ==
  (SplitDone /\ Len(DF) % chunk_size = 0) =>
    /\ Len(chunks) = (Len(DF) \div chunk_size) + 1
    /\ \A j, l \in DOMAIN chunks :
         j < l => (Len(chunks[l]) <= Len(chunks[j]) /\ Len(chunks[j]) <= Len(chunks[l]) + 1)
    /\ (\E j \in DOMAIN chunks : chunks[j] = << >>) <=> (chunk_size = 1 \/ Len(DF) = 0)
    /\ (chunk_size > 1 /\ Len(DF) > 0) =>
         \E j \in DOMAIN chunks : Len(chunks[j]) < chunk_size

\* C12 witness: a corpus of several chunkSize rows, chunkSize > 1, split with
\* no chunk empty.
C12_Witness ==
  /\ SplitDone
  /\ chunk_size > 1
  /\ Len(DF) >= 2 * chunk_size
  /\ Len(DF) % chunk_size = 0
  /\ \A j \in DOMAIN chunks : chunks[j] # << >>

\* the number of rows in the chunks before chunk j
RECURSIVE RowsBefore(_)
RowsBefore(j) == IF j = 1 THEN 0 ELSE RowsBefore(j - 1) + Len(chunks[j - 1])

\* C13: the chunks are consecutive runs of the input that together hold every
\* row once, none longer than chunkSize, and the concatenated output is what
\* tag_chunk returns on the whole input.
C13_ContiguousPartition ==
  /\ SplitDone =>
       /\ RowsBefore(Len(chunks) + 1) = Len(DF)
       /\ \A j \in DOMAIN chunks :
            /\ Len(chunks[j]) <= chunk_size
            /\ \A i \in DOMAIN chunks[j] : chunks[j][i] = DF[RowsBefore(j) + i]
  /\ Concatenated => DF_out = tag_chunk(DF, patterns)

\* C13 witness: an input that chunkSize does not divide, split into several
\* chunks of different sizes and labelled with rows kept and rows dropped.
C13_Witness ==
  /\ Concatenated
  /\ Len(DF) % chunk_size # 0
  /\ \E j, l \in DOMAIN chunks : Len(chunks[j]) > Len(chunks[l]) /\ Len(chunks[l]) > 0
  /\ DF_out # << >>
  /\ Len(DF_out) < Len(DF)

\* the script run that st.rerun() started after the click has ended
NextRunAfterClick == clicked # None /\ ~rerunning /\ runs_since_click = 1

\* a run later than that one has ended, with no new click since
LaterRunAfterClick == clicked # None /\ ~rerunning /\ runs_since_click = 2

ShowsClickedFigure == view_mode = "Browse" /\ shown = clicked

KeysConsumed == session_state = EmptySession

FallsBackToSearch ==
  /\ default_view = "Search"
  /\ KeysConsumed
  /\ view_mode = "Browse" => shown = Displayed(sidebar[1].pii, sidebar[1].figure)

\* C14: the run after a click on "View Full Details" shows the Browse view for
\* exactly the clicked (pii, figure_id), whatever the sidebar selects, and ends
\* with none of the four session-state keys left; a later run without a new
\* click has the Search default again and no request left to serve.
C14_NavigationConsumedOnce ==
  /\ NextRunAfterClick => (ShowsClickedFigure /\ KeysConsumed)
  /\ LaterRunAfterClick => FallsBackToSearch
====
